---- MODULE Spec2Model ----
(***************************************************************************)
(* Model of src/data/preprocess.py:                                        *)
(*                                                                         *)
(*   load_data(filepath)  ==  pd.read_csv(filepath)                        *)
(*   clean_data(df)       ==  df = df.dropna(); return df                  *)
(*                                                                         *)
(* Both functions are single calls into pandas with default arguments, so  *)
(* the model spells out what those defaults do: header handling, blank     *)
(* line skipping, short/long rows, NA strings, dtype inference, the        *)
(* context-managed file handle, and row-wise dropna returning a new frame. *)
(*                                                                         *)
(* A file is modelled at the level of fields: a header line and data       *)
(* lines, each a sequence of field strings.  A DataFrame is modelled as    *)
(* [columns, index, data] with data a sequence of columns (pandas is       *)
(* column oriented) and index the row labels.                              *)
(***************************************************************************)
EXTENDS Naturals, Sequences, FiniteSets

\* Largest number of data lines in a file / rows of a constructed table.
MaxRows == 3

VARIABLES
    file,      \* what the path given to load_data names
    pc,        \* position of the caller's script
    handle,    \* the file handle read_csv opens: "none", "open", "closed"
    parsed,    \* the parser's pending result while the handle is still open
    raised,    \* exception seen by the caller of load_data, or "none"
    loaded,    \* object id returned by load_data (0: nothing returned)
    heap,      \* the DataFrame objects alive, by object id
    arg,       \* object id passed to the latest clean_data call (0: none)
    pre,       \* value of the argument when that call was made
    cleaned    \* object id returned by the latest clean_data call (0: none)

vars == <<file, pc, handle, parsed, raised, loaded, heap, arg, pre, cleaned>>

-----------------------------------------------------------------------------
(* Cells                                                                   *)

Digits == <<"0", "1", "2", "3", "4", "5", "6", "7", "8", "9">>

\* str(n) for the small row numbers of the model
Str(n) == Digits[n + 1]

Int64(v) == [dtype |-> "int64", val |-> v]

Float64(v) == [dtype |-> "float64", val |-> v]

Object(v) == [dtype |-> "object", val |-> v]

\* numpy.nan, the missing-value marker read_csv produces
NaN == Float64("nan")

\* pandas.isna on one cell
isna(c) == c = NaN

-----------------------------------------------------------------------------
(* Files                                                                   *)

\* A field that opens a quote and never closes it.
BadQuote == "\"1"

FieldValues == {"", "NA", "1"}

Headers == {<<"a">>, <<"a", "b">>, <<"a", "a">>, <<"a", "">>}

Lines ==
    {<<f>> : f \in FieldValues}
        \cup {<<f, g>> : f \in FieldValues, g \in FieldValues}
        \cup {<<BadQuote>>}

RowSeqs == UNION {[1..n -> Lines] : n \in 0..MaxRows}

TextFile(h, rs) == [kind |-> "text", header |-> h, rows |-> rs]

OtherFile(k) == [kind |-> k, header |-> <<>>, rows |-> <<>>]

\* "none": the caller has no file and builds its table in memory.
Files ==
    {TextFile(h, rs) : h \in Headers, rs \in RowSeqs}
        \cup {OtherFile(k) : k \in {"missing", "denied", "directory", "empty", "none"}}

-----------------------------------------------------------------------------
(* pd.read_csv with default arguments                                      *)

\* open(filepath) inside read_csv: the OSError raised, or "none"
open_error(f) ==
    CASE f.kind = "missing" -> "FileNotFoundError"
      [] f.kind = "denied" -> "PermissionError"
      [] f.kind = "directory" -> "IsADirectoryError"
      [] OTHER -> "none"

\* strings read as missing by default (part of pandas' list)
na_values == {"", "NA", "NaN", "nan", "null", "None", "N/A", "n/a", "<NA>", "NULL"}

IntLiterals == {"0", "1", "2", "3", "4", "5", "6", "7", "8", "9"}

\* Variant: skip_blank_lines=False, an empty line is a row of missing cells.
is_blank_never(line) == FALSE

\* skip_blank_lines=True: a line holding one empty field is an empty line
is_blank(line) == line = <<"">>

pad(line, width) ==
    [j \in 1..width |-> IF j <= Len(line) THEN line[j] ELSE ""]

max(a, b) == IF a >= b THEN a ELSE b

\* The tokenizer: st = [err, width, out, n]; n counts the lines kept so far
\* (the header is line 0), width the field count of the previous kept line.
RECURSIVE tokenize(_, _)
tokenize(rows, st) ==
    IF rows = <<>> \/ st.err # "none" THEN st
    ELSE LET line == Head(rows) IN
         IF is_blank(line) THEN tokenize(Tail(rows), st)
         ELSE IF \E j \in 1..Len(line) : line[j] = BadQuote
              THEN [st EXCEPT !.err = "ParserError"]
         ELSE IF st.n >= 1 /\ Len(line) > st.width
              THEN [st EXCEPT !.err = "ParserError"]
         ELSE LET w == max(st.width, Len(line)) IN
              tokenize(Tail(rows),
                       [st EXCEPT !.width = w,
                                  !.out = Append(st.out, pad(line, w)),
                                  !.n = st.n + 1])

\* mangle_dupe_cols and the naming of empty header fields
count_before(h, j) == Cardinality({i \in 1..(j - 1) : h[i] = h[j]})

\* Variant: the header taken as it is, repeated names kept.
column_names_raw(h) == h

column_names(h) ==
    LET named == [j \in 1..Len(h) |->
                     IF h[j] = "" THEN "Unnamed: " \o Str(j - 1) ELSE h[j]]
    IN [j \in 1..Len(h) |->
           IF count_before(named, j) = 0 THEN named[j]
           ELSE named[j] \o "." \o Str(count_before(named, j))]

\* Variant: keep_default_na=False with na_values=["NA"], an empty field stays
\* an empty string.
convert_keep_empty(fields) ==
    LET present == {i \in 1..Len(fields) : fields[i] # "NA"} IN
    IF \E i \in present : fields[i] \notin IntLiterals
    THEN [i \in 1..Len(fields) |->
             IF i \in present THEN Object(fields[i]) ELSE NaN]
    ELSE IF present = 1..Len(fields)
    THEN [i \in 1..Len(fields) |-> Int64(fields[i])]
    ELSE [i \in 1..Len(fields) |->
             IF i \in present THEN Float64(fields[i]) ELSE NaN]

\* dtype inference for one column of fields
convert(fields) ==
    LET present == {i \in 1..Len(fields) : fields[i] \notin na_values} IN
    IF \E i \in present : fields[i] \notin IntLiterals
    THEN [i \in 1..Len(fields) |->
             IF i \in present THEN Object(fields[i]) ELSE NaN]
    ELSE IF present = 1..Len(fields)
    THEN [i \in 1..Len(fields) |-> Int64(fields[i])]
    ELSE [i \in 1..Len(fields) |->
             IF i \in present THEN Float64(fields[i]) ELSE NaN]

RangeIndex(n) == [i \in 1..n |-> Int64(Str(i - 1))]

field_column(out, j) == [i \in 1..Len(out) |-> out[i][j]]

\* The frame built from the header and the tokenized rows.  A first data row
\* with more fields than the header makes the leading fields the index.
build_frame(h, out) ==
    LET width == IF out = <<>> THEN Len(h) ELSE Len(out[1])
        leading == width - Len(h)
    IN [columns |-> column_names(h),
        index |-> IF leading = 0 THEN RangeIndex(Len(out))
                  ELSE convert(field_column(out, 1)),
        data |-> [j \in 1..Len(h) |-> convert(field_column(out, leading + j))]]

NoFrame == [columns |-> <<>>, index |-> <<>>, data |-> <<>>]

\* The parse of an opened file: [err, frame]
read_csv(f) ==
    IF f.kind = "empty" THEN [err |-> "EmptyDataError", frame |-> NoFrame]
    ELSE LET st == tokenize(f.rows,
                            [err |-> "none", width |-> Len(f.header),
                             out |-> <<>>, n |-> 0])
         IN IF st.err # "none" THEN [err |-> st.err, frame |-> NoFrame]
            ELSE [err |-> "none", frame |-> build_frame(f.header, st.out)]

-----------------------------------------------------------------------------
(* load_data                                                               *)

Pending == [err |-> "pending", frame |-> NoFrame]

Init ==
    /\ file \in Files
    /\ pc = "start"
    /\ handle = "none"
    /\ parsed = Pending
    /\ raised = "none"
    /\ loaded = 0
    /\ heap = <<>>
    /\ arg = 0
    /\ pre = NoFrame
    /\ cleaned = 0

\* load_data calls read_csv, which opens the path.  A failure to open
\* propagates out of load_data at once: there is no handler.
LoadOpen ==
    /\ pc = "start"
    /\ file.kind # "none"
    /\ IF open_error(file) # "none"
       THEN /\ raised' = open_error(file)
            /\ pc' = "ready"
            /\ UNCHANGED handle
       ELSE /\ handle' = "open"
            /\ pc' = "opened"
            /\ UNCHANGED raised
    /\ UNCHANGED <<file, parsed, loaded, heap, arg, pre, cleaned>>

\* The parser reads the whole file while the handle is open.
LoadParse ==
    /\ pc = "opened"
    /\ parsed' = read_csv(file)
    /\ pc' = "parsed"
    /\ UNCHANGED <<file, handle, raised, loaded, heap, arg, pre, cleaned>>

\* Variant: the handle is closed only on the success path.
LoadCloseLeak ==
    /\ pc = "parsed"
    /\ IF parsed.err = "none"
       THEN /\ handle' = "closed"
            /\ heap' = Append(heap, parsed.frame)
            /\ loaded' = Len(heap) + 1
            /\ UNCHANGED raised
       ELSE /\ raised' = parsed.err
            /\ UNCHANGED <<handle, heap, loaded>>
    /\ pc' = "ready"
    /\ UNCHANGED <<file, parsed, arg, pre, cleaned>>

\* Variant: load_data catches the parser's exception and returns an empty
\* frame in its place.
LoadCloseSwallow ==
    /\ pc = "parsed"
    /\ handle' = "closed"
    /\ heap' = Append(heap, parsed.frame)
    /\ loaded' = Len(heap) + 1
    /\ pc' = "ready"
    /\ UNCHANGED <<file, parsed, raised, arg, pre, cleaned>>

\* read_csv leaves its context manager: the handle is closed whether the
\* parse succeeded or raised, and then the frame is returned or the parser's
\* exception propagates to the caller of load_data.
LoadClose ==
    /\ pc = "parsed"
    /\ handle' = "closed"
    /\ IF parsed.err = "none"
       THEN /\ heap' = Append(heap, parsed.frame)
            /\ loaded' = Len(heap) + 1
            /\ UNCHANGED raised
       ELSE /\ raised' = parsed.err
            /\ UNCHANGED <<heap, loaded>>
    /\ pc' = "ready"
    /\ UNCHANGED <<file, parsed, arg, pre, cleaned>>

-----------------------------------------------------------------------------
(* Tables the caller builds without the Loader                             *)

ConstructedCells == {NaN, Float64("1"), Float64("2")}

ConstructedColumns == {<<"a">>, <<"a", "b">>}

Frames ==
    UNION {UNION {{[columns |-> c, index |-> RangeIndex(n), data |-> d] :
                      d \in [1..Len(c) -> [1..n -> ConstructedCells]]} :
                  n \in 0..MaxRows} :
           c \in ConstructedColumns}

Construct ==
    /\ pc = "start"
    /\ file.kind = "none"
    /\ \E t \in Frames :
          /\ heap' = Append(heap, t)
          /\ loaded' = Len(heap) + 1
    /\ pc' = "ready"
    /\ UNCHANGED <<file, handle, parsed, raised, arg, pre, cleaned>>

-----------------------------------------------------------------------------
(* clean_data                                                              *)

nrows(t) == Len(t.index)

ncols(t) == Len(t.columns)

\* no cell of row i is missing
complete(t, i) == \A j \in 1..ncols(t) : ~isna(t.data[j][i])

take(col, kept) == [k \in 1..Len(kept) |-> col[kept[k]]]

\* Variant: dropna(how="all"), a row goes only when all its cells are missing.
dropna_how_all(t) ==
    LET positions == [i \in 1..nrows(t) |-> i]
        keep(i) == \E j \in 1..ncols(t) : ~isna(t.data[j][i])
        kept == SelectSeq(positions, keep)
    IN [columns |-> t.columns,
        index |-> take(t.index, kept),
        data |-> [j \in 1..ncols(t) |-> take(t.data[j], kept)]]

\* Variant: the retained rows come back last first.
dropna_reversed(t) ==
    LET positions == [i \in 1..nrows(t) |-> i]
        keep(i) == complete(t, i)
        kept == SelectSeq(positions, keep)
        back == [k \in 1..Len(kept) |-> kept[Len(kept) + 1 - k]]
    IN [columns |-> t.columns,
        index |-> take(t.index, back),
        data |-> [j \in 1..ncols(t) |-> take(t.data[j], back)]]

\* Variant: rows deleted while iterating, so the row after a deleted one is
\* never examined and stays.
RECURSIVE kept_skipping(_, _)
kept_skipping(t, i) ==
    IF i > nrows(t) THEN <<>>
    ELSE IF complete(t, i) THEN <<i>> \o kept_skipping(t, i + 1)
    ELSE (IF i + 1 <= nrows(t) THEN <<i + 1>> ELSE <<>>) \o kept_skipping(t, i + 2)

dropna_skipping(t) ==
    LET kept == kept_skipping(t, 1)
    IN [columns |-> t.columns,
        index |-> take(t.index, kept),
        data |-> [j \in 1..ncols(t) |-> take(t.data[j], kept)]]

\* Variant: dropna(axis=1), the columns with a missing cell go, no row does.
dropna_axis1(t) ==
    LET positions == [j \in 1..ncols(t) |-> j]
        keep(j) == \A i \in 1..nrows(t) : ~isna(t.data[j][i])
        kept == SelectSeq(positions, keep)
    IN [columns |-> take(t.columns, kept),
        index |-> t.index,
        data |-> take(t.data, kept)]

\* DataFrame.dropna() with its defaults (axis=0, how="any"): a new frame with
\* the rows that have no missing cell, labels and order kept
dropna(t) ==
    LET positions == [i \in 1..nrows(t) |-> i]
        keep(i) == complete(t, i)
        kept == SelectSeq(positions, keep)
    IN [columns |-> t.columns,
        index |-> take(t.index, kept),
        data |-> [j \in 1..ncols(t) |-> take(t.data[j], kept)]]

\* Variant: dropna(inplace=True), the caller's object is filtered and returned.
clean_data_inplace(h, df) ==
    [heap |-> [h EXCEPT ![df] = dropna(h[df])], ret |-> df]

\* clean_data(df): df is the caller's object; dropna() allocates a new frame,
\* the local name df is rebound to it, and it is returned.
clean_data(h, df) ==
    [heap |-> Append(h, dropna(h[df])), ret |-> Len(h) + 1]

\* The caller cleans the table it loaded or built.
Clean ==
    /\ pc = "ready"
    /\ raised = "none"
    /\ loaded # 0
    /\ arg' = loaded
    /\ pre' = heap[loaded]
    /\ heap' = clean_data(heap, loaded).heap
    /\ cleaned' = clean_data(heap, loaded).ret
    /\ pc' = "cleaned"
    /\ UNCHANGED <<file, handle, parsed, raised, loaded>>

\* The caller passes the cleaned table to clean_data once more.
CleanAgain ==
    /\ pc = "cleaned"
    /\ arg' = cleaned
    /\ pre' = heap[cleaned]
    /\ heap' = clean_data(heap, cleaned).heap
    /\ cleaned' = clean_data(heap, cleaned).ret
    /\ pc' = "recleaned"
    /\ UNCHANGED <<file, handle, parsed, raised, loaded>>

Next == LoadOpen \/ LoadParse \/ LoadClose \/ Construct \/ Clean \/ CleanAgain

Spec == Init /\ [][Next]_vars

-----------------------------------------------------------------------------
(* Vocabulary of the properties                                            *)

Returned == pc \in {"cleaned", "recleaned"}

\* the table clean_data was given (as it was at the call) and what it returned
Given == pre

Result == heap[cleaned]

Row(t, i) == [label |-> t.index[i], cells |-> [j \in 1..ncols(t) |-> t.data[j][i]]]

Rows(t) == [i \in 1..nrows(t) |-> Row(t, i)]

HasMissing(r) == \E j \in 1..Len(r.cells) : r.cells[j] = NaN

Range(s) == {s[i] : i \in 1..Len(s)}

\* the rows of t at the positions in S, in increasing position order
RowsAt(t, S) ==
    LET In(i) == i \in S
        pos == SelectSeq([i \in 1..nrows(t) |-> i], In)
    IN [k \in 1..Len(pos) |-> Row(t, pos[k])]

-----------------------------------------------------------------------------
\* C1: a row of T is in clean_data(T) if and only if none of its cells is
\* missing; every row of the result is a row of T; the result has at most as
\* many rows as T and none of its cells is missing.
C1_RetainedIffComplete ==
    Returned =>
        /\ \A i \in 1..nrows(Given) :
              (Row(Given, i) \in Range(Rows(Result))) <=> ~HasMissing(Row(Given, i))
        /\ Range(Rows(Result)) \subseteq Range(Rows(Given))
        /\ nrows(Result) <= nrows(Given)
        /\ \A k \in 1..nrows(Result) : ~HasMissing(Row(Result, k))

\* a table with a complete row and a row with a missing cell has been cleaned
C1_Witness ==
    /\ pc = "cleaned"
    /\ nrows(Given) = MaxRows
    /\ \E i \in 1..nrows(Given) : HasMissing(Row(Given, i))
    /\ \E i \in 1..nrows(Given) : ~HasMissing(Row(Given, i))
    /\ \E i \in 1..nrows(Given) :
          /\ HasMissing(Row(Given, i))
          /\ \E j \in 1..ncols(Given) : Given.data[j][i] # NaN

\* C2: the rows of clean_data(T) are the rows of T at some set of positions,
\* in increasing position order: a subsequence, nothing reordered or repeated.
C2_Subsequence ==
    Returned =>
        \E S \in SUBSET (1..nrows(Given)) : Rows(Result) = RowsAt(Given, S)

\* two rows are retained around a dropped one
C2_Witness ==
    /\ pc = "cleaned"
    /\ nrows(Given) = 3
    /\ ~HasMissing(Row(Given, 1))
    /\ HasMissing(Row(Given, 2))
    /\ ~HasMissing(Row(Given, 3))
    /\ nrows(Result) = 2

\* C3: after clean_data returns, the caller's argument object holds what it
\* held at the call, and the result is another object.
C3_InputUnchanged ==
    Returned => (heap[arg] = pre /\ cleaned # arg)

\* the call dropped rows, and the argument still has them
C3_Witness ==
    /\ pc = "cleaned"
    /\ nrows(Result) < nrows(Given)
    /\ nrows(heap[arg]) = nrows(Given)
    /\ \E i \in 1..nrows(heap[arg]) : HasMissing(Row(heap[arg], i))

\* C4: clean_data(clean_data(T)) = clean_data(T): the second call, given the
\* first call's result, returns a table equal to it.
C4_Idempotent ==
    pc = "recleaned" => Result = Given

\* the first call dropped some rows and kept some
C4_Witness ==
    /\ pc = "recleaned"
    /\ nrows(Result) > 0
    /\ nrows(heap[loaded]) > nrows(Result)

\* C5: clean_data(T) has the columns of T, in T's order, whatever rows go.
C5_ColumnsPreserved ==
    Returned =>
        /\ Result.columns = Given.columns
        /\ Len(Result.data) = Len(Given.columns)

\* every row of a two-column table had a missing cell: no row is left and
\* both columns are
C5_Witness ==
    /\ pc = "cleaned"
    /\ nrows(Given) > 0
    /\ \A i \in 1..nrows(Given) : HasMissing(Row(Given, i))
    /\ nrows(Result) = 0
    /\ Len(Result.columns) = 2

-----------------------------------------------------------------------------
(* Files as the specification describes them                               *)

LoadReturned == pc = "ready" /\ file.kind # "none"

Table == heap[loaded]

\* comma-separated text with a header row naming the columns: no header
\* field is empty, every data line has as many fields as the header, and
\* every quote is closed
WellFormedFile(f) ==
    /\ f.kind = "text"
    /\ \A j \in 1..Len(f.header) : f.header[j] # ""
    /\ \A i \in 1..Len(f.rows) :
          /\ Len(f.rows[i]) = Len(f.header)
          /\ \A j \in 1..Len(f.rows[i]) : f.rows[i][j] # BadQuote

DistinctNames(h) == \A i, j \in 1..Len(h) : h[i] = h[j] => i = j

\* a line with no character on it
BlankLine(line) == Len(line) = 1 /\ line[1] = ""

\* the file's data rows: its lines after the header, blank lines aside
DataRows(f) ==
    LET NotBlank(line) == ~BlankLine(line) IN SelectSeq(f.rows, NotBlank)

\* the strings other than the empty one that the parser reads as missing
NAStrings == {"NA"}

\* the cell holds the value the field spells
Spells(c, fld) == c # NaN /\ c.val = fld

\* C6 as stated: for every well-formed file, the table's column names are the
\* header's, its rows are the file's data rows in file order, and every empty
\* field is missing.
C6_AsStated ==
    (LoadReturned /\ WellFormedFile(file)) =>
        /\ raised = "none" /\ loaded # 0
        /\ Table.columns = file.header
        /\ nrows(Table) = Len(DataRows(file))
        /\ \A i \in 1..nrows(Table) : \A j \in 1..ncols(Table) :
              /\ DataRows(file)[i][j] = "" => Table.data[j][i] = NaN
              /\ DataRows(file)[i][j] \notin ({""} \cup NAStrings) =>
                    Spells(Table.data[j][i], DataRows(file)[i][j])

\* C6, amended: for every well-formed file whose header names are pairwise
\* distinct, the table's column names are the header's, its rows are the
\* file's data rows in file order, and every empty field is missing.
C6_LoadFaithful ==
    (LoadReturned /\ WellFormedFile(file) /\ DistinctNames(file.header)) =>
        /\ raised = "none" /\ loaded # 0
        /\ Table.columns = file.header
        /\ nrows(Table) = Len(DataRows(file))
        /\ \A i \in 1..nrows(Table) : \A j \in 1..ncols(Table) :
              /\ DataRows(file)[i][j] = "" => Table.data[j][i] = NaN
              /\ DataRows(file)[i][j] \notin ({""} \cup NAStrings) =>
                    Spells(Table.data[j][i], DataRows(file)[i][j])

\* the file a,b / 1,1 / ,1 / 1,1 has been loaded
C6_Witness ==
    /\ LoadReturned
    /\ file = TextFile(<<"a", "b">>, <<<<"1", "1">>, <<"", "1">>, <<"1", "1">>>>)
    /\ loaded # 0
    /\ nrows(Table) = 3
    /\ Table.data[1][2] = NaN

-----------------------------------------------------------------------------
\* the specification's two error kinds
FileAccessError == {"FileNotFoundError", "PermissionError", "IsADirectoryError"}

ParseError == {"ParserError", "EmptyDataError"}

Unopenable(f) == f.kind \in {"missing", "denied", "directory"}

\* content the parser cannot read as delimited text: nothing to take a header
\* from, a quote left open, or a data line after the first with more fields
\* than every line before it
NotDelimitedText(f) ==
    \/ f.kind = "empty"
    \/ /\ f.kind = "text"
       /\ \E i \in 1..Len(f.rows) :
             \/ \E j \in 1..Len(f.rows[i]) : f.rows[i][j] = BadQuote
             \/ /\ \E k \in 1..(i - 1) : ~BlankLine(f.rows[k])
                /\ Len(f.rows[i]) > Len(f.header)
                /\ \A k \in 1..(i - 1) : Len(f.rows[i]) > Len(f.rows[k])

\* C7: a path that cannot be opened gives the caller a FileAccessError, content
\* that is not delimited text a ParseError; either way the caller gets the
\* error itself and no table.
C7_ErrorsPropagate ==
    LoadReturned =>
        /\ Unopenable(file) => (raised \in FileAccessError /\ loaded = 0 /\ heap = <<>>)
        /\ NotDelimitedText(file) => (raised \in ParseError /\ loaded = 0 /\ heap = <<>>)
        /\ raised # "none" <=> (Unopenable(file) \/ NotDelimitedText(file))

\* a file whose last line opens a quote, after a good line, has been refused
C7_Witness ==
    /\ LoadReturned
    /\ Len(file.rows) >= 2
    /\ file.rows[1] = <<"1", "1">>
    /\ file.rows[Len(file.rows)] = <<BadQuote>>
    /\ raised = "ParserError"
    /\ heap = <<>>

-----------------------------------------------------------------------------
(* Writing a table back as text: DataFrame.to_csv(index=False)             *)

format(c) ==
    IF c = NaN THEN ""
    ELSE IF c.dtype = "float64" THEN c.val \o ".0"
    ELSE c.val

to_csv(t) ==
    [header |-> t.columns,
     rows |-> [i \in 1..nrows(t) |-> [j \in 1..ncols(t) |-> format(t.data[j][i])]]]

\* the same value, up to how its type is written (1 and 1.0)
SameUpToType(fld, out) == out = fld \/ out = fld \o ".0"

Reserialized == to_csv(Table)

\* C8 as stated: for every valid file, writing the loaded table back gives the
\* same header, the same number of rows, each cell equal to its field up to
\* type formatting, and an empty cell exactly where the field was empty.
C8_AsStated ==
    (LoadReturned /\ WellFormedFile(file)) =>
        /\ loaded # 0
        /\ Reserialized.header = file.header
        /\ Len(Reserialized.rows) = Len(DataRows(file))
        /\ \A i \in 1..Len(Reserialized.rows) : \A j \in 1..Len(file.header) :
              /\ SameUpToType(DataRows(file)[i][j], Reserialized.rows[i][j])
              /\ Reserialized.rows[i][j] = "" <=> DataRows(file)[i][j] = ""

\* C8, amended: for every valid file whose header names are pairwise
\* distinct, writing the loaded table back gives the same header and the same
\* number of rows, each cell equal to its field up to type formatting unless
\* the field is an NA string, and an empty cell exactly where the field was
\* empty or an NA string.
C8_RoundTrip ==
    (LoadReturned /\ WellFormedFile(file) /\ DistinctNames(file.header)) =>
        /\ loaded # 0
        /\ Reserialized.header = file.header
        /\ Len(Reserialized.rows) = Len(DataRows(file))
        /\ \A i \in 1..Len(Reserialized.rows) : \A j \in 1..Len(file.header) :
              /\ DataRows(file)[i][j] \notin NAStrings =>
                    SameUpToType(DataRows(file)[i][j], Reserialized.rows[i][j])
              /\ Reserialized.rows[i][j] = "" <=>
                    DataRows(file)[i][j] \in ({""} \cup NAStrings)

\* a file with an NA field, an empty field and a number in a column that
\* becomes floating point has been loaded
C8_Witness ==
    /\ LoadReturned
    /\ file = TextFile(<<"a", "b">>, <<<<"NA", "1">>, <<"1", "">>, <<"1", "1">>>>)
    /\ loaded # 0
    /\ Reserialized.rows = <<<<"", "1.0">>, <<"1.0", "">>, <<"1.0", "1.0">>>>

-----------------------------------------------------------------------------
WellFormedTable(t) ==
    /\ Len(t.data) = Len(t.columns)
    /\ \A j \in 1..Len(t.data) : Len(t.data[j]) = Len(t.index)
    /\ DistinctNames(t.columns)

\* C9: every table load_data or clean_data returns has columns of one length,
\* the row count, and pairwise distinct column names.
C9_TableInvariants ==
    \A id \in 1..Len(heap) : WellFormedTable(heap[id])

\* a file whose header repeats a name and whose lines are uneven has been
\* loaded and cleaned, and rows went
C9_Witness ==
    /\ pc = "cleaned"
    /\ file.kind = "text"
    /\ file.header = <<"a", "a">>
    /\ \E i \in 1..Len(file.rows) : Len(file.rows[i]) = 1
    /\ nrows(Result) > 0
    /\ nrows(Result) < nrows(Given)

-----------------------------------------------------------------------------
\* C10: once load_data has returned, by a value or by an exception, the handle
\* it opened is not open; before the call there is none.
C10_HandleReleased ==
    /\ pc \in {"ready", "cleaned", "recleaned"} => handle # "open"
    /\ pc = "start" => handle = "none"
    /\ (pc = "ready" /\ file.kind \in {"text", "empty"}) => handle = "closed"

\* the parse failed with the handle open, and load_data has returned
C10_Witness ==
    /\ pc = "ready"
    /\ raised \in ParseError
    /\ handle = "closed"

====
